---- MODULE Spec2Model ----
(***************************************************************************)
(* Model of the DUIX gateway server (src/unnamed/part_002): the circuit    *)
(* breaker, the upstream call executor callDUIXServiceWithToken with its   *)
(* retry loop, the gateway routes that validate their input, the token     *)
(* signer createDUIXToken and the latency echo route.                      *)
(*                                                                         *)
(* Node runs the handlers on one event loop: a handler runs without        *)
(* interruption until it awaits a network call or a backoff timer, so each *)
(* action below is one such uninterrupted run of one request.              *)
(***************************************************************************)
EXTENDS Integers, Sequences, FiniteSets, TLC

VARIABLES
    IS_PRODUCTION,          \* process.env.NODE_ENV === 'production'
    now,                    \* Date.now(), in ms, relative to the model's epoch
    duixApiCircuitBreaker,  \* the module-level breaker object
    req,                    \* the requests being served, one record per slot
    last,                   \* the request answered most recently, with its response
    envTokenExpiry,         \* process.env.TOKEN_EXPIRY, a string of characters
    minted,                 \* the tokens createDUIXToken has signed, newest last
    latency,                \* the measurements of the last /api/measure-latency answer
    phase,                  \* "starting" while the module loads, then "listening" or "exited"
    envDuixAppId,           \* process.env.DUIX_APP_ID
    envDuixAppKey,          \* process.env.DUIX_APP_KEY
    envDisableSslValidation, \* process.env.DISABLE_SSL_VALIDATION
    agents                  \* the https.Agent configurations built, newest last

processVars == <<IS_PRODUCTION, phase, envDuixAppId, envDuixAppKey, envDisableSslValidation>>
vars == <<IS_PRODUCTION, now, duixApiCircuitBreaker, req, last, envTokenExpiry, minted,
          latency, phase, envDuixAppId, envDuixAppKey, envDisableSslValidation, agents>>
gatewayVars == <<duixApiCircuitBreaker, req, last>>
tokenVars == <<envTokenExpiry, minted>>

----------------------------------------------------------------------------
(* Bounds of the model *)

Reqs == {"r1", "r2"}        \* request slots served concurrently
Client == "r1"              \* the slot of the one-at-a-time client
StartMs == 90000            \* Date.now() when the process starts
TickMs == 30000             \* granularity of the clock
MaxTicks == 4               \* how often the clock advances
MaxMinted == 2              \* how many signed tokens are remembered
MaxElapsedMs == 1500        \* how far the clock runs while tokens are signed
ElapseSteps == {500, 999}
MaxAgents == 2              \* how many agent configurations are remembered
MaxMeasureMs == 6           \* how far the clock runs while latencies are measured
EpochHi == 13129            \* the epoch time of the clock origin, upper limb
EpochLo == 40000000         \* and lower limb

----------------------------------------------------------------------------
(* JavaScript values that arrive in a request body or query *)

Undefined == [t |-> "undefined", s |-> "", n |-> 0]
Str(s) == [t |-> "string", s |-> s, n |-> 0]
Num(n) == [t |-> "number", s |-> "", n |-> n]

\* ToBoolean: undefined, "" and 0 are falsy
Truthy(v) ==
    CASE v.t = "undefined" -> FALSE
      [] v.t = "string" -> v.s # ""
      [] v.t = "number" -> v.n # 0

IsString(v) == v.t = "string"

Questions == {Undefined, Str(""), Str("hi"), Num(42)}
Tokens == {Undefined, Str(""), Str("abc"), Num(123)}
\* the well-formed body {question: "hi", token: "abc"}
ValidQuestions == {Str("hi")}
ValidTokens == {Str("abc")}
Uuids == {Undefined, Str("u-1")}
ConversationIds == {Undefined, Str("c-1")}

----------------------------------------------------------------------------
(* Outcomes of one axios call: a response with an HTTP status, or a        *)
(* network-level error. validateStatus makes axios throw on status >= 500. *)

Outcomes ==
    {[kind |-> "response", status |-> 200, dataSuccess |-> TRUE],
     [kind |-> "response", status |-> 200, dataSuccess |-> FALSE],
     [kind |-> "response", status |-> 404, dataSuccess |-> FALSE],
     [kind |-> "response", status |-> 500, dataSuccess |-> FALSE],
     [kind |-> "error", status |-> 0, dataSuccess |-> FALSE]}

NoOutcome == [kind |-> "none", status |-> 0, dataSuccess |-> FALSE]

\* Variant: only 2xx and 3xx count as an answer
validateStatus_ClientErrors(status) == status < 400

validateStatus(status) == status < 500

\* TRUE when the awaited axios promise resolves (does not throw)
Resolves(o) == o.kind = "response" /\ validateStatus(o.status)

----------------------------------------------------------------------------
(* The circuit breaker *)

failureThreshold == 5
recoveryTimeoutMs == 60000

InitBreaker == [failures |-> 0, lastFailureTime |-> 0, state |-> "CLOSED"]

\* Variant: lastFailureTime is set by the failures recorded while CLOSED only
updateCircuitBreaker_StaleTime(cb, success, t) ==
    IF success
    THEN [cb EXCEPT !.failures = 0, !.state = "CLOSED"]
    ELSE [cb EXCEPT !.failures = cb.failures + 1,
                    !.lastFailureTime = IF cb.state = "CLOSED" THEN t ELSE cb.lastFailureTime,
                    !.state = IF cb.failures + 1 >= failureThreshold
                              THEN "OPEN" ELSE cb.state]

\* Variant: the threshold test written with > instead of >=
updateCircuitBreaker_OpensLate(cb, success, t) ==
    IF success
    THEN [cb EXCEPT !.failures = 0, !.state = "CLOSED"]
    ELSE [cb EXCEPT !.failures = cb.failures + 1,
                    !.lastFailureTime = t,
                    !.state = IF cb.failures + 1 > failureThreshold
                              THEN "OPEN" ELSE cb.state]

\* Variant: a success clears the count and leaves the mode as it is
updateCircuitBreaker_KeepsMode(cb, success, t) ==
    IF success
    THEN [cb EXCEPT !.failures = 0]
    ELSE [cb EXCEPT !.failures = cb.failures + 1,
                    !.lastFailureTime = t,
                    !.state = IF cb.failures + 1 >= failureThreshold
                              THEN "OPEN" ELSE cb.state]

updateCircuitBreaker(cb, success, t) ==
    IF success
    THEN [cb EXCEPT !.failures = 0, !.state = "CLOSED"]
    ELSE [cb EXCEPT !.failures = cb.failures + 1,
                    !.lastFailureTime = t,
                    !.state = IF cb.failures + 1 >= failureThreshold
                              THEN "OPEN" ELSE cb.state]

\* Variant: after the recovery timeout the breaker is closed at once
shouldAttemptDuixCall_ClosesOnProbe(cb, t) ==
    IF cb.state = "CLOSED" THEN [ok |-> TRUE, cb |-> cb]
    ELSE IF cb.state = "OPEN"
    THEN IF t - cb.lastFailureTime > recoveryTimeoutMs
         THEN [ok |-> TRUE, cb |-> [cb EXCEPT !.state = "CLOSED"]]
         ELSE [ok |-> FALSE, cb |-> cb]
    ELSE [ok |-> TRUE, cb |-> cb]

\* Variant: an OPEN breaker refuses whatever time has passed
shouldAttemptDuixCall_NeverRecovers(cb, t) ==
    IF cb.state = "CLOSED" THEN [ok |-> TRUE, cb |-> cb]
    ELSE IF cb.state = "OPEN" THEN [ok |-> FALSE, cb |-> cb]
    ELSE [ok |-> TRUE, cb |-> cb]

\* Variant: the recovery test written with >= instead of >
shouldAttemptDuixCall_AtTimeout(cb, t) ==
    IF cb.state = "CLOSED" THEN [ok |-> TRUE, cb |-> cb]
    ELSE IF cb.state = "OPEN"
    THEN IF t - cb.lastFailureTime >= recoveryTimeoutMs
         THEN [ok |-> TRUE, cb |-> [cb EXCEPT !.state = "HALF_OPEN"]]
         ELSE [ok |-> FALSE, cb |-> cb]
    ELSE [ok |-> TRUE, cb |-> cb]

\* The result of the call and the breaker it leaves behind
shouldAttemptDuixCall(cb, t) ==
    IF cb.state = "CLOSED" THEN [ok |-> TRUE, cb |-> cb]
    ELSE IF cb.state = "OPEN"
    THEN IF t - cb.lastFailureTime > recoveryTimeoutMs
         THEN [ok |-> TRUE, cb |-> [cb EXCEPT !.state = "HALF_OPEN"]]
         ELSE [ok |-> FALSE, cb |-> cb]
    ELSE [ok |-> TRUE, cb |-> cb]

----------------------------------------------------------------------------
(* The upstream call executor, callDUIXServiceWithToken *)

maxRetries(prod) == IF prod THEN 2 ELSE 3
baseTimeout(prod) == IF prod THEN 15000 ELSE 20000

\* timeout: baseTimeout + (attempt * 2000)
AttemptTimeout(prod, attempt) == baseTimeout(prod) + attempt * 2000

NoErrorInfo == [present |-> FALSE, attempts |-> 0, circuit_breaker_state |-> "none"]

NoData ==
    [session_id |-> "none", api_call_successful |-> FALSE, api_status |-> 0,
     fallback_mode |-> FALSE, real_api_response |-> FALSE,
     circuit_breaker_state |-> "none", error_info |-> NoErrorInfo]

createFallbackResponse(cb, errorInfo) ==
    [session_id |-> "fallback_session", api_call_successful |-> FALSE,
     api_status |-> 503, fallback_mode |-> TRUE, real_api_response |-> FALSE,
     circuit_breaker_state |-> cb.state, error_info |-> errorInfo]

\* the object returned after an attempt whose promise resolved
SuccessResult(cb, status) ==
    [session_id |-> "duix_session", api_call_successful |-> (status = 200),
     api_status |-> status, fallback_mode |-> FALSE, real_api_response |-> TRUE,
     circuit_breaker_state |-> cb.state, error_info |-> NoErrorInfo]

ExhaustedErrorInfo(prod, cb) ==
    [present |-> TRUE, attempts |-> maxRetries(prod), circuit_breaker_state |-> cb.state]

----------------------------------------------------------------------------
(* HTTP responses of the gateway *)

\* Besides the status and the success flag a response records which of the fields
\* errorId and timestamp its body has, whether the body carries the message or code
\* of a caught error (details), the token it returns (sign) and, for /healthz, the
\* status field and checks.duix_api.
NoToken == [payload |-> [appId |-> "", iat |-> 0, exp |-> 0], key |-> "", algorithm |-> "none"]

NoResp ==
    [status |-> 0, success |-> "undefined", message |-> "none", data |-> NoData,
     errorId |-> FALSE, timestamp |-> FALSE, details |-> FALSE, sign |-> NoToken,
     health |-> "none", duix_api |-> "none"]

\* res.status(400).json({success: false, error: ...})
BadRequest == [NoResp EXCEPT !.status = 400, !.success = "false", !.message = "validation"]

\* handleError: res.status(500).json(sanitizedError), which has no success field;
\* details and code are added when the runtime is not production
handleError(prod) ==
    [NoResp EXCEPT !.status = 500, !.message = "Internal server error",
                   !.errorId = TRUE, !.timestamp = TRUE, !.details = ~prod]

\* res.json({success: true, question, response: response.data, ..., session_id})
TestLatencyOk(result) ==
    [NoResp EXCEPT !.status = 200, !.success = "true", !.data = result, !.timestamp = TRUE]

IdleReq ==
    [route |-> "none", pc |-> "idle", question |-> Undefined, token |-> Undefined,
     uuid |-> Undefined, conversationId |-> Undefined, attempt |-> 0,
     outcome |-> NoOutcome, gate |-> "none", calls |-> 0, timeouts |-> <<>>, resp |-> NoResp,
     memoryOk |-> TRUE, delays |-> <<>>]

\* a slot is free when it serves no request
Free(r) == req[r].pc = "idle"

\* app.listen has been reached: the routes are served
Listening == phase = "listening"

\* The handler's run leaves the request record rq: a request that has answered
\* leaves its slot and is kept, with its response, as the last one answered.
Settle(r, rq) ==
    IF rq.pc = "done"
    THEN /\ req' = [req EXCEPT ![r] = IdleReq]
         /\ last' = [id |-> r, rq |-> rq]
    ELSE /\ req' = [req EXCEPT ![r] = rq]
         /\ UNCHANGED last

\* The part of callDUIXServiceWithToken that runs until the first axios call
\* is awaited, as the request record and the breaker it leaves. gate records what
\* shouldAttemptDuixCall answered: "refused", "admitted", or "probe" when the call
\* that admitted the request moved the breaker from OPEN to HALF_OPEN.
CallStart_RecordsRefusal(prod, cb, t, q, tok) ==
    LET g == shouldAttemptDuixCall(cb, t)
        cb2 == updateCircuitBreaker(g.cb, FALSE, t) IN
    IF ~prod /\ ~IsString(tok)
    THEN [r |-> [IdleReq EXCEPT !.route = "test-latency", !.pc = "done", !.question = q,
                                !.token = tok, !.resp = handleError(prod)],
          cb |-> cb]
    ELSE IF ~g.ok
         THEN [r |-> [IdleReq EXCEPT !.route = "test-latency", !.pc = "done",
                                     !.question = q, !.token = tok, !.gate = "refused",
                                     !.resp = TestLatencyOk(createFallbackResponse(cb2, NoErrorInfo))],
               cb |-> cb2]
         ELSE [r |-> [IdleReq EXCEPT !.route = "test-latency", !.pc = "await",
                                     !.question = q, !.token = tok,
                                     !.gate = IF g.cb.state = cb.state THEN "admitted" ELSE "probe",
                                     !.attempt = 1, !.calls = 1,
                                     !.timeouts = <<AttemptTimeout(prod, 1)>>],
               cb |-> g.cb]

CallStart(prod, cb, t, q, tok) ==
    IF ~prod /\ ~IsString(tok)
    THEN \* clientToken.substring is not a function: the handler's catch answers
         [r |-> [IdleReq EXCEPT !.route = "test-latency", !.pc = "done", !.question = q,
                                !.token = tok, !.resp = handleError(prod)],
          cb |-> cb]
    ELSE LET g == shouldAttemptDuixCall(cb, t) IN
         IF ~g.ok
         THEN [r |-> [IdleReq EXCEPT !.route = "test-latency", !.pc = "done",
                                     !.question = q, !.token = tok, !.gate = "refused",
                                     !.resp = TestLatencyOk(createFallbackResponse(g.cb, NoErrorInfo))],
               cb |-> g.cb]
         ELSE [r |-> [IdleReq EXCEPT !.route = "test-latency", !.pc = "await",
                                     !.question = q, !.token = tok,
                                     !.gate = IF g.cb.state = cb.state THEN "admitted" ELSE "probe",
                                     !.attempt = 1, !.calls = 1,
                                     !.timeouts = <<AttemptTimeout(prod, 1)>>],
               cb |-> g.cb]

\* Variant: the token check is left out
TestLatencyHandler_NoTokenCheck(prod, cb, t, q, tok) ==
    IF ~Truthy(q) \/ ~IsString(q)
    THEN [r |-> [IdleReq EXCEPT !.route = "test-latency", !.pc = "done", !.question = q,
                                !.token = tok, !.resp = BadRequest],
          cb |-> cb]
    ELSE CallStart(prod, cb, t, q, tok)

\* POST /api/test-latency up to its first suspension
TestLatencyHandler(prod, cb, t, q, tok) ==
    IF ~Truthy(q) \/ ~IsString(q)
    THEN [r |-> [IdleReq EXCEPT !.route = "test-latency", !.pc = "done", !.question = q,
                                !.token = tok, !.resp = BadRequest],
          cb |-> cb]
    ELSE IF ~Truthy(tok)
    THEN [r |-> [IdleReq EXCEPT !.route = "test-latency", !.pc = "done", !.question = q,
                                !.token = tok, !.resp = BadRequest],
          cb |-> cb]
    ELSE CallStart(prod, cb, t, q, tok)

TestLatency(r, q, tok) ==
    /\ Listening
    /\ Free(r)
    /\ LET h == TestLatencyHandler(IS_PRODUCTION, duixApiCircuitBreaker, now, q, tok) IN
        /\ Settle(r, h.r)
        /\ duixApiCircuitBreaker' = h.cb
    /\ UNCHANGED <<processVars, agents, now, tokenVars, latency>>

\* Variant: the loop gives up one attempt early
AttemptEnd_OffByOne(prod, cb, t, rq, o) ==
    IF Resolves(o)
    THEN LET cb2 == updateCircuitBreaker(cb, TRUE, t) IN
         [r |-> [rq EXCEPT !.pc = "done", !.outcome = o,
                           !.resp = TestLatencyOk(SuccessResult(cb2, o.status))],
          cb |-> cb2]
    ELSE IF rq.attempt = maxRetries(prod) - 1
    THEN LET cb2 == updateCircuitBreaker(cb, FALSE, t) IN
         [r |-> [rq EXCEPT !.pc = "done", !.outcome = o,
                           !.resp = TestLatencyOk(createFallbackResponse(cb2, ExhaustedErrorInfo(prod, cb2)))],
          cb |-> cb2]
    ELSE [r |-> [rq EXCEPT !.pc = "backoff"], cb |-> cb]

\* Variant: the last failure is thrown to the route instead of answered by a fallback
AttemptEnd_ThrowsWhenExhausted(prod, cb, t, rq, o) ==
    IF Resolves(o)
    THEN LET cb2 == updateCircuitBreaker(cb, TRUE, t) IN
         [r |-> [rq EXCEPT !.pc = "done", !.outcome = o,
                           !.resp = TestLatencyOk(SuccessResult(cb2, o.status))],
          cb |-> cb2]
    ELSE IF rq.attempt = maxRetries(prod)
    THEN LET cb2 == updateCircuitBreaker(cb, FALSE, t) IN
         [r |-> [rq EXCEPT !.pc = "done", !.outcome = o, !.resp = handleError(prod)],
          cb |-> cb2]
    ELSE [r |-> [rq EXCEPT !.pc = "backoff"], cb |-> cb]

\* Variant: a failed attempt is followed at once by the next one
AttemptEnd_NoBackoff(prod, cb, t, rq, o) ==
    IF Resolves(o)
    THEN LET cb2 == updateCircuitBreaker(cb, TRUE, t) IN
         [r |-> [rq EXCEPT !.pc = "done", !.outcome = o,
                           !.resp = TestLatencyOk(SuccessResult(cb2, o.status))],
          cb |-> cb2]
    ELSE IF rq.attempt = maxRetries(prod)
    THEN LET cb2 == updateCircuitBreaker(cb, FALSE, t) IN
         [r |-> [rq EXCEPT !.pc = "done", !.outcome = o,
                           !.resp = TestLatencyOk(createFallbackResponse(cb2, ExhaustedErrorInfo(prod, cb2)))],
          cb |-> cb2]
    ELSE [r |-> [rq EXCEPT !.attempt = rq.attempt + 1, !.calls = rq.calls + 1,
                           !.timeouts = Append(rq.timeouts, AttemptTimeout(prod, rq.attempt + 1))],
          cb |-> cb]

\* Variant: every failed attempt is recorded on the breaker
AttemptEnd_RecordsEveryFailure(prod, cb, t, rq, o) ==
    IF Resolves(o)
    THEN LET cb2 == updateCircuitBreaker(cb, TRUE, t) IN
         [r |-> [rq EXCEPT !.pc = "done", !.outcome = o,
                           !.resp = TestLatencyOk(SuccessResult(cb2, o.status))],
          cb |-> cb2]
    ELSE IF rq.attempt = maxRetries(prod)
    THEN LET cb2 == updateCircuitBreaker(cb, FALSE, t) IN
         [r |-> [rq EXCEPT !.pc = "done", !.outcome = o,
                           !.resp = TestLatencyOk(createFallbackResponse(cb2, ExhaustedErrorInfo(prod, cb2)))],
          cb |-> cb2]
    ELSE [r |-> [rq EXCEPT !.pc = "backoff"], cb |-> updateCircuitBreaker(cb, FALSE, t)]

\* The continuation of callDUIXServiceWithToken when the awaited attempt ends
AttemptEnd(prod, cb, t, rq, o) ==
    IF Resolves(o)
    THEN LET cb2 == updateCircuitBreaker(cb, TRUE, t) IN
         [r |-> [rq EXCEPT !.pc = "done", !.outcome = o,
                           !.resp = TestLatencyOk(SuccessResult(cb2, o.status))],
          cb |-> cb2]
    ELSE IF rq.attempt = maxRetries(prod)
    THEN LET cb2 == updateCircuitBreaker(cb, FALSE, t) IN
         [r |-> [rq EXCEPT !.pc = "done", !.outcome = o,
                           !.resp = TestLatencyOk(createFallbackResponse(cb2, ExhaustedErrorInfo(prod, cb2)))],
          cb |-> cb2]
    ELSE [r |-> [rq EXCEPT !.pc = "backoff"], cb |-> cb]

\* Variant: the delay doubles from a base of 2000 ms
backoffMs_DoubledBase(attempt, j) ==
    IF 2^attempt * 2000 + j < 10000 THEN 2^attempt * 2000 + j ELSE 10000

\* Math.min(Math.pow(2, attempt) * 1000 + Math.random() * 1000, 10000), where
\* j is Math.random() * 1000
backoffMs(attempt, j) ==
    IF 2^attempt * 1000 + j < 10000 THEN 2^attempt * 1000 + j ELSE 10000

\* the values of Math.random() * 1000 that are tried: 0 <= j < 1000
Jitters == {0, 999}
\* the one value used where the delay is of no interest
NoJitter == {0}

\* the awaited attempt ends with outcome o; when the loop goes on, it sleeps
\* backoffMs, which delays records
AttemptDone(r, o, j) ==
    /\ req[r].route = "test-latency"
    /\ req[r].pc = "await"
    /\ LET h == AttemptEnd(IS_PRODUCTION, duixApiCircuitBreaker, now, req[r], o)
           rq == IF h.r.pc = "backoff"
                 THEN [h.r EXCEPT !.delays = Append(@, backoffMs(h.r.attempt, j))]
                 ELSE h.r
       IN
        /\ Settle(r, rq)
        /\ duixApiCircuitBreaker' = h.cb
    /\ UNCHANGED <<processVars, agents, now, tokenVars, latency>>

\* Variant: the loop counter is not advanced
NextAttempt_SameAttempt(prod, rq) ==
    [rq EXCEPT !.pc = "await", !.delays = SubSeq(rq.delays, 1, rq.attempt - 1)]

\* the backoff timer fires: the loop starts the next attempt
NextAttempt(prod, rq) ==
    [rq EXCEPT !.pc = "await", !.attempt = rq.attempt + 1, !.calls = rq.calls + 1,
               !.timeouts = Append(rq.timeouts, AttemptTimeout(prod, rq.attempt + 1))]

BackoffElapsed(r) ==
    /\ req[r].route = "test-latency"
    /\ req[r].pc = "backoff"
    /\ req' = [req EXCEPT ![r] = NextAttempt(IS_PRODUCTION, req[r])]
    /\ UNCHANGED <<processVars, agents, now, duixApiCircuitBreaker, last, tokenVars, latency>>

----------------------------------------------------------------------------
(* The session routes, which call upstream directly with axios *)

SessionOk == [NoResp EXCEPT !.status = 200, !.success = "true", !.timestamp = TRUE]
\* res.status(503).json({success: false, error: 'DUIX API unavailable', ...})
SessionUnavailable ==
    [NoResp EXCEPT !.status = 503, !.success = "false", !.message = "DUIX API unavailable",
                   !.timestamp = TRUE]
\* the catch block: res.status(503).json({success: false, error: 'Service temporarily unavailable', ...})
SessionFailed ==
    [NoResp EXCEPT !.status = 503, !.success = "false",
                   !.message = "Service temporarily unavailable", !.timestamp = TRUE]
ConversationExists ==
    [NoResp EXCEPT !.status = 200, !.success = "true", !.message = "CONVERSATION_EXISTS",
                   !.timestamp = TRUE]
ConversationCreated ==
    [NoResp EXCEPT !.status = 200, !.success = "true",
                   !.message = "HYBRID_CONVERSATION_CREATED", !.timestamp = TRUE]

\* GET /api/duix/concurrent-sessions up to its axios call
ConcurrentSessionsHandler(tok) ==
    IF ~Truthy(tok)
    THEN [IdleReq EXCEPT !.route = "concurrent-sessions", !.pc = "done", !.token = tok,
                         !.resp = BadRequest]
    ELSE [IdleReq EXCEPT !.route = "concurrent-sessions", !.pc = "await", !.token = tok,
                         !.calls = 1, !.timeouts = <<15000>>]

ConcurrentSessions(r, tok) ==
    /\ Listening
    /\ Free(r)
    /\ Settle(r, ConcurrentSessionsHandler(tok))
    /\ UNCHANGED <<processVars, agents, now, duixApiCircuitBreaker, tokenVars, latency>>

\* POST /api/duix/stop-session up to its axios call
StopSessionHandler(tok, uuid) ==
    IF ~Truthy(tok) \/ ~Truthy(uuid)
    THEN [IdleReq EXCEPT !.route = "stop-session", !.pc = "done", !.token = tok,
                         !.uuid = uuid, !.resp = BadRequest]
    ELSE [IdleReq EXCEPT !.route = "stop-session", !.pc = "await", !.token = tok,
                         !.uuid = uuid, !.calls = 1, !.timeouts = <<15000>>]

StopSession(r, tok, uuid) ==
    /\ Listening
    /\ Free(r)
    /\ Settle(r, StopSessionHandler(tok, uuid))
    /\ UNCHANGED <<processVars, agents, now, duixApiCircuitBreaker, tokenVars, latency>>

\* the status mapping both session routes apply to the upstream answer
SessionCallEnd(rq, o) ==
    IF Resolves(o)
    THEN IF o.status = 200
         THEN [rq EXCEPT !.pc = "done", !.outcome = o, !.resp = SessionOk]
         ELSE [rq EXCEPT !.pc = "done", !.outcome = o, !.resp = SessionUnavailable]
    ELSE [rq EXCEPT !.pc = "done", !.outcome = o, !.resp = SessionFailed]

\* Variant: the session routes report their upstream outcome to the breaker
SessionCallDone_RecordsOutcome(r, o) ==
    /\ req[r].route \in {"concurrent-sessions", "stop-session"}
    /\ req[r].pc = "await"
    /\ Settle(r, SessionCallEnd(req[r], o))
    /\ duixApiCircuitBreaker' = updateCircuitBreaker(duixApiCircuitBreaker, Resolves(o), now)
    /\ UNCHANGED <<processVars, agents, now, tokenVars, latency>>

SessionCallDone(r, o) ==
    /\ req[r].route \in {"concurrent-sessions", "stop-session"}
    /\ req[r].pc = "await"
    /\ Settle(r, SessionCallEnd(req[r], o))
    /\ UNCHANGED <<processVars, agents, now, duixApiCircuitBreaker, tokenVars, latency>>

\* POST /api/duix/create-conversation up to its lookup call, if it makes one
CreateConversationHandler(tok, cid) ==
    IF ~Truthy(tok)
    THEN [IdleReq EXCEPT !.route = "create-conversation", !.pc = "done", !.token = tok,
                         !.conversationId = cid, !.resp = BadRequest]
    ELSE IF Truthy(cid)
    THEN [IdleReq EXCEPT !.route = "create-conversation", !.pc = "await", !.token = tok,
                         !.conversationId = cid, !.calls = 1, !.timeouts = <<15000>>]
    ELSE [IdleReq EXCEPT !.route = "create-conversation", !.pc = "done", !.token = tok,
                         !.conversationId = cid, !.resp = ConversationCreated]

CreateConversation(r, tok, cid) ==
    /\ Listening
    /\ Free(r)
    /\ Settle(r, CreateConversationHandler(tok, cid))
    /\ UNCHANGED <<processVars, agents, now, duixApiCircuitBreaker, tokenVars, latency>>

\* the lookup ends: an existing conversation is returned, anything else falls
\* through to the locally built conversation object
ConversationLookupEnd(rq, o) ==
    IF Resolves(o) /\ o.status = 200 /\ o.dataSuccess
    THEN [rq EXCEPT !.pc = "done", !.outcome = o, !.resp = ConversationExists]
    ELSE [rq EXCEPT !.pc = "done", !.outcome = o, !.resp = ConversationCreated]

ConversationLookupDone(r, o) ==
    /\ req[r].route = "create-conversation"
    /\ req[r].pc = "await"
    /\ Settle(r, ConversationLookupEnd(req[r], o))
    /\ UNCHANGED <<processVars, agents, now, duixApiCircuitBreaker, tokenVars, latency>>

----------------------------------------------------------------------------
(* The token signer *)

\* an environment variable that is not set reads as undefined, which parseInt
\* converts to the string "undefined"
EnvUnset == <<"u", "n", "d", "e", "f", "i", "n", "e", "d">>

EnvTokenExpiryValues ==
    {EnvUnset,
     <<"1", "8", "0", "0">>,
     <<"6", "0">>,
     <<"0">>,
     <<"-", "6", "0">>,
     <<"6", "0", "s">>,
     <<" ", "9", "0">>,
     <<"0", "x", "1", "e">>,
     <<"a", "b", "c">>,
     <<>>}

WhiteSpace == {" ", "\t", "\n"}

DigitValue(c) ==
    CASE c = "0" -> 0 [] c = "1" -> 1 [] c = "2" -> 2 [] c = "3" -> 3 [] c = "4" -> 4
      [] c = "5" -> 5 [] c = "6" -> 6 [] c = "7" -> 7 [] c = "8" -> 8 [] c = "9" -> 9
      [] c \in {"a", "A"} -> 10 [] c \in {"b", "B"} -> 11 [] c \in {"c", "C"} -> 12
      [] c \in {"d", "D"} -> 13 [] c \in {"e", "E"} -> 14 [] c \in {"f", "F"} -> 15
      [] OTHER -> 99

RECURSIVE TrimStart(_)
TrimStart(cs) ==
    IF cs # <<>> /\ Head(cs) \in WhiteSpace THEN TrimStart(Tail(cs)) ELSE cs

\* the digits of the longest prefix of cs that is a numeral in the radix
RECURSIVE DigitPrefix(_, _)
DigitPrefix(cs, radix) ==
    IF cs # <<>> /\ DigitValue(Head(cs)) < radix
    THEN <<DigitValue(Head(cs))>> \o DigitPrefix(Tail(cs), radix)
    ELSE <<>>

RECURSIVE DigitsValue(_, _, _)
DigitsValue(ds, radix, acc) ==
    IF ds = <<>> THEN acc ELSE DigitsValue(Tail(ds), radix, acc * radix + Head(ds))

\* parseInt(string) without a radix argument: leading white space is skipped, a
\* sign is read, "0x" selects radix 16, the longest numeral prefix is converted,
\* and the result is NaN when there is none.
parseInt(cs) ==
    LET t == TrimStart(cs)
        negative == t # <<>> /\ Head(t) = "-"
        u == IF t # <<>> /\ Head(t) \in {"-", "+"} THEN Tail(t) ELSE t
        hex == Len(u) >= 2 /\ u[1] = "0" /\ u[2] \in {"x", "X"}
        radix == IF hex THEN 16 ELSE 10
        ds == DigitPrefix(IF hex THEN Tail(Tail(u)) ELSE u, radix)
        v == DigitsValue(ds, radix, 0)
    IN  IF ds = <<>> THEN [nan |-> TRUE, val |-> 0]
        ELSE [nan |-> FALSE, val |-> IF negative THEN -v ELSE v]

\* parseInt(process.env.TOKEN_EXPIRY) || 1800: NaN and 0 are falsy
TOKEN_EXPIRY ==
    LET p == parseInt(envTokenExpiry) IN
    IF p.nan \/ p.val = 0 THEN 1800 ELSE p.val

\* process.env.DUIX_APP_ID || '1377185422953811968'
DUIX_APP_ID == IF Truthy(envDuixAppId) THEN envDuixAppId.s ELSE "1377185422953811968"
\* process.env.DUIX_APP_KEY || '4f3725b2-...'
DUIX_APP_KEY ==
    IF Truthy(envDuixAppKey) THEN envDuixAppKey.s ELSE "4f3725b2-7d48-4ea7-8640-d1a11eb00f8c"

\* Variant: the expiry is computed from the millisecond clock
createDUIXToken_MsExpiry(appId, appKey, sigExp, t) ==
    [payload |-> [appId |-> appId, iat |-> t \div 1000, exp |-> t + sigExp],
     key |-> appKey, algorithm |-> "HS256"]

\* jwt.sign(payload, appKey, {algorithm: 'HS256'}): the token is determined by the
\* payload and the key that signs it. t is Date.now().
createDUIXToken(appId, appKey, sigExp, t) ==
    [payload |-> [appId |-> appId, iat |-> t \div 1000, exp |-> (t \div 1000) + sigExp],
     key |-> appKey, algorithm |-> "HS256"]

\* the explicit lifetimes of a direct call
Lifetimes == {60, 1800}

Record(at, sigExp, token) ==
    LET e == [at |-> at, sigExp |-> sigExp, token |-> token] IN
    IF Len(minted) < MaxMinted THEN Append(minted, e) ELSE Append(Tail(minted), e)

\* a route signs a token: createDUIXToken(DUIX_APP_ID, DUIX_APP_KEY)
MintDefault ==
    /\ minted' = Record(now, TOKEN_EXPIRY,
                        createDUIXToken(DUIX_APP_ID, DUIX_APP_KEY, TOKEN_EXPIRY, now))
    /\ UNCHANGED <<processVars, agents, now, gatewayVars, envTokenExpiry, latency>>

\* createDUIXToken(DUIX_APP_ID, DUIX_APP_KEY, sigExp)
MintWithLifetime(sigExp) ==
    /\ minted' = Record(now, sigExp,
                        createDUIXToken(DUIX_APP_ID, DUIX_APP_KEY, sigExp, now))
    /\ UNCHANGED <<processVars, agents, now, gatewayVars, envTokenExpiry, latency>>

\* the clock advances by a part of a second or by a whole one
Elapse(ms) ==
    /\ now + ms <= StartMs + MaxElapsedMs
    /\ now' = now + ms
    /\ UNCHANGED <<processVars, agents, gatewayVars, tokenVars, latency>>

----------------------------------------------------------------------------
(* JavaScript numbers. The latency route subtracts numbers as IEEE 754       *)
(* doubles: a result that needs more than 53 bits is rounded to the nearest  *)
(* double, ties to the even mantissa. An integer-valued double is held here   *)
(* as sign and magnitude, the magnitude in two limbs: hi * 2^27 + lo.        *)

Limb == 2^27
\* the hi limb of 2^53, the first magnitude whose neighbours are 2 apart
Hi53 == 2^26

Dbl(neg, hi, lo) == [neg |-> neg, hi |-> hi, lo |-> lo]
DblZero == Dbl(FALSE, 0, 0)
Small(n) == IF n < 0 THEN Dbl(TRUE, 0, -n) ELSE Dbl(FALSE, 0, n)

MagLess(a, b) == a.hi < b.hi \/ (a.hi = b.hi /\ a.lo < b.lo)

MagAdd(a, b) ==
    LET l == a.lo + b.lo IN
    [hi |-> a.hi + b.hi + (l \div Limb), lo |-> l % Limb]

\* a - b for magnitudes with b <= a
MagSub(a, b) ==
    IF a.lo >= b.lo
    THEN [hi |-> a.hi - b.hi, lo |-> a.lo - b.lo]
    ELSE [hi |-> a.hi - b.hi - 1, lo |-> a.lo + Limb - b.lo]

Signed(neg, mag) ==
    IF mag.hi = 0 /\ mag.lo = 0 THEN DblZero ELSE Dbl(neg, mag.hi, mag.lo)

Negate(a) == Signed(~a.neg, a)

\* the exact sum of two integers
ExactAdd(a, b) ==
    IF a.neg = b.neg THEN Signed(a.neg, MagAdd(a, b))
    ELSE IF MagLess(a, b) THEN Signed(b.neg, MagSub(b, a))
    ELSE Signed(a.neg, MagSub(a, b))

\* how many bits the magnitude has beyond 53
RECURSIVE ExcessBits(_)
ExcessBits(hi) == IF hi < Hi53 THEN 0 ELSE 1 + ExcessBits(hi \div 2)

\* round to nearest, ties to even
RoundToDouble(x) ==
    LET q == 2^ExcessBits(x.hi)
        r == x.lo % q
        base == [hi |-> x.hi, lo |-> x.lo - r]
        odd == ((x.lo - r) \div q) % 2 = 1
        up == 2 * r > q \/ (2 * r = q /\ odd)
    IN  IF r = 0 THEN x
        ELSE IF up THEN Signed(x.neg, MagAdd(base, [hi |-> 0, lo |-> q]))
        ELSE Signed(x.neg, base)

\* a - b and a + b as JavaScript computes them
DblSub(a, b) == RoundToDouble(ExactAdd(a, Negate(b)))
DblAdd(a, b) == RoundToDouble(ExactAdd(a, b))

\* Date.now() as a number: the epoch time of the model's clock origin plus now
Epoch == [hi |-> EpochHi, lo |-> EpochLo]
DateNow(t) == Signed(FALSE, MagAdd(Epoch, [hi |-> 0, lo |-> t]))

----------------------------------------------------------------------------
(* POST /api/measure-latency *)

\* the clientSendTime values of a request that arrives when Date.now() is t:
\* the sender's clock a little behind or ahead of the server's, zero, and
\* integers at the limits of exact double arithmetic
ClientSendTimes(t) ==
    {DblSub(DateNow(t), Small(50)), DateNow(t), DblAdd(DateNow(t), Small(7)),
     DblZero,
     Dbl(FALSE, Hi53 \div 2, 0), Dbl(TRUE, Hi53 \div 2, 0),
     Dbl(FALSE, Hi53, 0), Dbl(TRUE, Hi53, 0), Dbl(TRUE, Hi53, 2)}

\* the time the handler takes between its two readings of Date.now(), in ms
ProcessingTimes == {0, 1, 2}

NoMeasurements ==
    [measured |-> FALSE, clientSendTime |-> DblZero, serverReceiveTime |-> DblZero,
     serverProcessTime |-> DblZero, networkLatency |-> DblZero,
     serverProcessingTime |-> DblZero, totalRoundTrip |-> DblZero]

\* Variant: the round trip is taken up to the receive time
Measurements_UpToReceive(clientSendTime, serverReceiveTime, serverProcessTime) ==
    [measured |-> TRUE,
     clientSendTime |-> clientSendTime,
     serverReceiveTime |-> serverReceiveTime,
     serverProcessTime |-> serverProcessTime,
     networkLatency |-> DblSub(serverReceiveTime, clientSendTime),
     serverProcessingTime |-> DblSub(serverProcessTime, serverReceiveTime),
     totalRoundTrip |-> DblSub(serverReceiveTime, clientSendTime)]

\* latencyData.measurements
Measurements(clientSendTime, serverReceiveTime, serverProcessTime) ==
    [measured |-> TRUE,
     clientSendTime |-> clientSendTime,
     serverReceiveTime |-> serverReceiveTime,
     serverProcessTime |-> serverProcessTime,
     networkLatency |-> DblSub(serverReceiveTime, clientSendTime),
     serverProcessingTime |-> DblSub(serverProcessTime, serverReceiveTime),
     totalRoundTrip |-> DblSub(serverProcessTime, clientSendTime)]

\* The handler reads Date.now() on entry and again after parsing the body, d ms
\* later, and answers with the measurements; it awaits nothing.
MeasureLatency(clientSendTime, d) ==
    /\ Listening
    /\ now + d <= StartMs + MaxMeasureMs
    /\ now' = now + d
    /\ latency' = Measurements(clientSendTime, DateNow(now), DateNow(now + d))
    /\ UNCHANGED <<processVars, agents, gatewayVars, tokenVars>>

----------------------------------------------------------------------------
(* The outbound connection profile *)

\* values of process.env.DISABLE_SSL_VALIDATION
EnvDisableSslValues == {Undefined, Str("true"), Str("false"), Str("TRUE"), Str("1")}

\* the strategy argument: 'production' is the default of the parameter and
\* 'duix_api' the tag of the upstream calls
Strategies == {"production", "duix_api", "other"}

StrictCiphers ==
    <<"ECDHE-RSA-AES256-GCM-SHA384", "ECDHE-RSA-AES128-GCM-SHA256",
      "ECDHE-RSA-AES256-SHA384", "ECDHE-RSA-AES128-SHA256",
      "AES256-GCM-SHA384", "AES128-GCM-SHA256">>

PermissiveCiphers ==
    StrictCiphers \o
    <<"AES256-SHA256", "AES128-SHA256",
      "HIGH:!aNULL:!eNULL:!EXPORT:!DES:!RC4:!MD5:!PSK:!SRP:!CAMELLIA">>

\* Variant: the environment switch is honoured under the production flag too
shouldValidateSSL_EnvInProduction(prod, disable, strategy) ==
    disable # Str("true") /\ strategy # "duix_api"

\* IS_PRODUCTION ? !isForDuixAPI
\*               : (process.env.DISABLE_SSL_VALIDATION !== 'true' && !isForDuixAPI)
shouldValidateSSL(prod, disable, strategy) ==
    IF prod THEN strategy # "duix_api"
    ELSE disable # Str("true") /\ strategy # "duix_api"

\* Variant: the pool and the timeout do not depend on the runtime flag
PoolConfig_Fixed(prod) ==
    [maxSockets |-> 10, maxFreeSockets |-> 5, timeout |-> 30000]

\* maxSockets, maxFreeSockets and timeout of baseConfig
PoolConfig(prod) ==
    [maxSockets |-> IF prod THEN 50 ELSE 10,
     maxFreeSockets |-> IF prod THEN 20 ELSE 5,
     timeout |-> IF prod THEN 20000 ELSE 30000]

\* Variant: the upstream profile keeps the version range of the strict one
TlsVersions_Same(strategy) ==
    [secureProtocol |-> "TLSv1_2_method", minVersion |-> "TLSv1.2", maxVersion |-> "TLSv1.3"]

\* secureProtocol, minVersion and maxVersion of baseConfig
TlsVersions(strategy) ==
    IF strategy = "duix_api"
    THEN [secureProtocol |-> "TLSv1_2_method", minVersion |-> "undefined",
          maxVersion |-> "undefined"]
    ELSE [secureProtocol |-> "TLSv1_2_method", minVersion |-> "TLSv1.2",
          maxVersion |-> "TLSv1.3"]

\* The baseConfig handed to new https.Agent. checkServerIdentity is either the
\* wrapper around tls.checkServerIdentity, which returns the mismatch it finds, or
\* the function that accepts every certificate.
createHTTPSAgent(prod, disable, strategy) ==
    LET validate == shouldValidateSSL(prod, disable, strategy)
        pool == PoolConfig(prod)
        tls == TlsVersions(strategy)
    IN  [strategy |-> strategy,
         rejectUnauthorized |-> validate,
         keepAlive |-> TRUE,
         maxSockets |-> pool.maxSockets,
         maxFreeSockets |-> pool.maxFreeSockets,
         timeout |-> pool.timeout,
         freeSocketTimeout |-> 30000,
         secureProtocol |-> tls.secureProtocol,
         minVersion |-> tls.minVersion,
         maxVersion |-> tls.maxVersion,
         ciphers |-> IF strategy = "duix_api" THEN PermissiveCiphers ELSE StrictCiphers,
         checkServerIdentity |-> IF validate THEN "tls.checkServerIdentity" ELSE "accept_any",
         honorCipherOrder |-> TRUE,
         requestCert |-> FALSE]

\* const httpsAgent = createHTTPSAgent(); axios.defaults.httpsAgent = httpsAgent,
\* once the module body has run
httpsAgent == createHTTPSAgent(IS_PRODUCTION, envDisableSslValidation, "production")

\* a handler builds the agent of one outbound call
BuildAgent(strategy) ==
    /\ Listening
    /\ LET a == createHTTPSAgent(IS_PRODUCTION, envDisableSslValidation, strategy) IN
       agents' = IF Len(agents) < MaxAgents THEN Append(agents, a)
                 ELSE Append(Tail(agents), a)
    /\ UNCHANGED <<processVars, now, gatewayVars, tokenVars, latency>>

----------------------------------------------------------------------------
(* Startup, and the routes that sign a token themselves *)

\* values of process.env.DUIX_APP_ID and process.env.DUIX_APP_KEY
EnvDuixAppIds == {Undefined, Str(""), Str("app-1")}
EnvDuixAppKeys == {Undefined, Str("key-1")}

\* Variant: only the application id is required
StartupPhase_IdOnly(prod, appId, appKey) ==
    IF prod /\ ~Truthy(appId) THEN "exited" ELSE "listening"

\* if (IS_PRODUCTION) { if (!process.env.DUIX_APP_ID || !process.env.DUIX_APP_KEY)
\* process.exit(1) }: the module body runs on to app.listen unless it exits here
StartupPhase(prod, appId, appKey) ==
    IF prod /\ (~Truthy(appId) \/ ~Truthy(appKey)) THEN "exited" ELSE "listening"

\* the module body, from the credential check to app.listen
Startup ==
    /\ phase = "starting"
    /\ phase' = StartupPhase(IS_PRODUCTION, envDuixAppId, envDuixAppKey)
    /\ UNCHANGED <<IS_PRODUCTION, envDuixAppId, envDuixAppKey, envDisableSslValidation,
                   agents, now, gatewayVars, tokenVars, latency>>

\* res.status(403).json({success: false, error: 'Token generation endpoint disabled ...'})
Forbidden ==
    [NoResp EXCEPT !.status = 403, !.success = "false",
                   !.message = "Token generation endpoint disabled in production"]

\* res.json({success: true, sign: token, conversationId, warning})
SignOk(token) == [NoResp EXCEPT !.status = 200, !.success = "true", !.sign = token]

\* Variant: the production check is missing
DuixSignHandler_NoProductionCheck(prod, cid, token) ==
    [IdleReq EXCEPT !.route = "sign", !.pc = "done", !.conversationId = cid,
                    !.resp = SignOk(token)]

\* GET /api/duix/sign; token is what createDUIXToken returns when it is called
DuixSignHandler(prod, cid, token) ==
    IF prod
    THEN [IdleReq EXCEPT !.route = "sign", !.pc = "done", !.conversationId = cid,
                         !.resp = Forbidden]
    ELSE [IdleReq EXCEPT !.route = "sign", !.pc = "done", !.conversationId = cid,
                         !.resp = SignOk(token)]

DuixSign(r, cid) ==
    /\ Listening
    /\ Free(r)
    /\ LET token == createDUIXToken(DUIX_APP_ID, DUIX_APP_KEY, TOKEN_EXPIRY, now)
           rq == DuixSignHandler(IS_PRODUCTION, cid, token)
       IN  /\ Settle(r, rq)
           /\ minted' = IF rq.resp.sign = NoToken THEN minted
                         ELSE Record(now, TOKEN_EXPIRY, token)
    /\ UNCHANGED <<processVars, agents, now, duixApiCircuitBreaker, envTokenExpiry, latency>>

\* GET /healthz up to its probe: memoryOk is heapUsed < 1 GB, and process.uptime()
\* is positive once the process runs
HealthzHandler(memoryOk) ==
    [IdleReq EXCEPT !.route = "healthz", !.pc = "await", !.calls = 1,
                    !.timeouts = <<5000>>, !.memoryOk = memoryOk]

Healthz(r, memoryOk) ==
    /\ Listening
    /\ Free(r)
    /\ Settle(r, HealthzHandler(memoryOk))
    /\ minted' = Record(now, TOKEN_EXPIRY,
                        createDUIXToken(DUIX_APP_ID, DUIX_APP_KEY, TOKEN_EXPIRY, now))
    /\ UNCHANGED <<processVars, agents, now, duixApiCircuitBreaker, envTokenExpiry, latency>>

\* Variant: a failed probe makes the health check unhealthy
HealthzEnd_ProbeDecides(rq, o) ==
    LET duix == IF Resolves(o) THEN (IF o.status = 200 THEN "ok" ELSE "degraded")
                ELSE "unavailable_hybrid_mode_active"
        isHealthy == rq.memoryOk /\ Resolves(o)
    IN  [rq EXCEPT !.pc = "done", !.outcome = o,
                   !.resp = [NoResp EXCEPT !.status = IF isHealthy THEN 200 ELSE 503,
                                           !.health = "healthy", !.timestamp = TRUE,
                                           !.duix_api = duix, !.details = ~Resolves(o)]]

\* the probe ends: checks.duix_api is set, and checks.duix_error = error.code ||
\* error.message when axios threw; isHealthy looks at server, memory and uptime
HealthzEnd(rq, o) ==
    LET duix == IF Resolves(o) THEN (IF o.status = 200 THEN "ok" ELSE "degraded")
                ELSE "unavailable_hybrid_mode_active"
        isHealthy == rq.memoryOk
    IN  [rq EXCEPT !.pc = "done", !.outcome = o,
                   !.resp = [NoResp EXCEPT !.status = IF isHealthy THEN 200 ELSE 503,
                                           !.health = "healthy", !.timestamp = TRUE,
                                           !.duix_api = duix, !.details = ~Resolves(o)]]

HealthzProbeDone(r, o) ==
    /\ req[r].route = "healthz"
    /\ req[r].pc = "await"
    /\ Settle(r, HealthzEnd(req[r], o))
    /\ UNCHANGED <<processVars, agents, now, duixApiCircuitBreaker, tokenVars, latency>>

\* GET /api/status up to its probe
StatusHandler ==
    [IdleReq EXCEPT !.route = "status", !.pc = "await", !.calls = 1, !.timeouts = <<10000>>]

Status(r) ==
    /\ Listening
    /\ Free(r)
    /\ Settle(r, StatusHandler)
    /\ minted' = Record(now, TOKEN_EXPIRY,
                        createDUIXToken(DUIX_APP_ID, DUIX_APP_KEY, TOKEN_EXPIRY, now))
    /\ UNCHANGED <<processVars, agents, now, duixApiCircuitBreaker, envTokenExpiry, latency>>

\* the probe ends: duix_api_status is healthy, degraded or unhealthy
StatusEnd(rq, o) ==
    LET duix == IF Resolves(o) THEN (IF o.status = 200 THEN "healthy" ELSE "degraded")
                ELSE "unhealthy"
    IN  [rq EXCEPT !.pc = "done", !.outcome = o,
                   !.resp = [NoResp EXCEPT !.status = 200, !.message = "operational",
                                           !.timestamp = TRUE, !.duix_api = duix]]

StatusProbeDone(r, o) ==
    /\ req[r].route = "status"
    /\ req[r].pc = "await"
    /\ Settle(r, StatusEnd(req[r], o))
    /\ UNCHANGED <<processVars, agents, now, duixApiCircuitBreaker, tokenVars, latency>>

\* GET /health: res.json({status: 'healthy', timestamp, environment, ...})
Health(r) ==
    /\ Listening
    /\ Free(r)
    /\ Settle(r, [IdleReq EXCEPT !.route = "health", !.pc = "done",
                                 !.resp = [NoResp EXCEPT !.status = 200, !.health = "healthy",
                                                         !.timestamp = TRUE]])
    /\ UNCHANGED <<processVars, agents, now, duixApiCircuitBreaker, tokenVars, latency>>

\* GET /ping: res.status(200).send('pong')
Ping(r) ==
    /\ Listening
    /\ Free(r)
    /\ Settle(r, [IdleReq EXCEPT !.route = "ping", !.pc = "done",
                                 !.resp = [NoResp EXCEPT !.status = 200, !.message = "pong"]])
    /\ UNCHANGED <<processVars, agents, now, duixApiCircuitBreaker, tokenVars, latency>>

----------------------------------------------------------------------------
(* The clock *)

Tick ==
    /\ now < StartMs + MaxTicks * TickMs
    /\ now' = now + TickMs
    /\ UNCHANGED <<processVars, agents, gatewayVars, tokenVars, latency>>

----------------------------------------------------------------------------

Init ==
    /\ IS_PRODUCTION \in BOOLEAN
    /\ now = StartMs
    /\ duixApiCircuitBreaker = InitBreaker
    /\ req = [r \in Reqs |-> IdleReq]
    /\ last = [id |-> "none", rq |-> IdleReq]
    /\ envTokenExpiry = EnvUnset
    /\ minted = <<>>
    /\ latency = NoMeasurements
    /\ phase = "listening"
    /\ envDuixAppId = Str("app-1")
    /\ envDuixAppKey = Str("key-1")
    /\ envDisableSslValidation = Undefined
    /\ agents = <<>>

\* Concurrent well-formed test-latency requests racing on the breaker
Next ==
    \/ \E r \in Reqs, q \in ValidQuestions, tok \in ValidTokens : TestLatency(r, q, tok)
    \/ \E r \in Reqs, o \in Outcomes, j \in NoJitter : AttemptDone(r, o, j)
    \/ \E r \in Reqs : BackoffElapsed(r)
    \/ Tick

Spec == Init /\ [][Next]_vars

\* One client sending every kind of body to every route, one request at a time
NextRoutes ==
    \/ \E q \in Questions, tok \in Tokens : TestLatency(Client, q, tok)
    \/ \E o \in Outcomes, j \in NoJitter : AttemptDone(Client, o, j)
    \/ BackoffElapsed(Client)
    \/ \E tok \in Tokens : ConcurrentSessions(Client, tok)
    \/ \E tok \in Tokens, uuid \in Uuids : StopSession(Client, tok, uuid)
    \/ \E o \in Outcomes : SessionCallDone(Client, o)
    \/ \E tok \in Tokens, cid \in ConversationIds : CreateConversation(Client, tok, cid)
    \/ \E o \in Outcomes : ConversationLookupDone(Client, o)
    \/ Tick

SpecRoutes == Init /\ [][NextRoutes]_vars

\* The token signer under every TOKEN_EXPIRY setting of the environment
InitToken ==
    /\ IS_PRODUCTION \in BOOLEAN
    /\ now = StartMs
    /\ duixApiCircuitBreaker = InitBreaker
    /\ req = [r \in Reqs |-> IdleReq]
    /\ last = [id |-> "none", rq |-> IdleReq]
    /\ envTokenExpiry \in EnvTokenExpiryValues
    /\ minted = <<>>
    /\ latency = NoMeasurements
    /\ phase = "listening"
    /\ envDuixAppId = Str("app-1")
    /\ envDuixAppKey = Str("key-1")
    /\ envDisableSslValidation = Undefined
    /\ agents = <<>>

NextToken ==
    \/ MintDefault
    \/ \E sigExp \in Lifetimes : MintWithLifetime(sigExp)
    \/ \E ms \in ElapseSteps : Elapse(ms)

SpecToken == InitToken /\ [][NextToken]_vars

\* The connection profiles under every setting of the flag and the environment
InitAgent ==
    /\ IS_PRODUCTION \in BOOLEAN
    /\ now = StartMs
    /\ duixApiCircuitBreaker = InitBreaker
    /\ req = [r \in Reqs |-> IdleReq]
    /\ last = [id |-> "none", rq |-> IdleReq]
    /\ envTokenExpiry = EnvUnset
    /\ minted = <<>>
    /\ latency = NoMeasurements
    /\ phase = "starting"
    /\ envDuixAppId = Str("app-1")
    /\ envDuixAppKey = Str("key-1")
    /\ envDisableSslValidation \in EnvDisableSslValues
    /\ agents = <<>>

NextAgent ==
    \/ Startup
    \/ \E strategy \in Strategies : BuildAgent(strategy)

SpecAgent == InitAgent /\ [][NextAgent]_vars

\* The process from its start: the credential check, then one client using the
\* routes that sign tokens and the test-latency route
InitOps ==
    /\ IS_PRODUCTION \in BOOLEAN
    /\ now = StartMs
    /\ duixApiCircuitBreaker = InitBreaker
    /\ req = [r \in Reqs |-> IdleReq]
    /\ last = [id |-> "none", rq |-> IdleReq]
    /\ envTokenExpiry = EnvUnset
    /\ minted = <<>>
    /\ latency = NoMeasurements
    /\ phase = "starting"
    /\ envDuixAppId \in EnvDuixAppIds
    /\ envDuixAppKey \in EnvDuixAppKeys
    /\ envDisableSslValidation = Undefined
    /\ agents = <<>>

NextOps ==
    \/ Startup
    \/ \E cid \in ConversationIds : DuixSign(Client, cid)
    \/ \E memoryOk \in BOOLEAN : Healthz(Client, memoryOk)
    \/ \E o \in Outcomes : HealthzProbeDone(Client, o)
    \/ Status(Client)
    \/ \E o \in Outcomes : StatusProbeDone(Client, o)
    \/ \E q \in Questions, tok \in Tokens : TestLatency(Client, q, tok)
    \/ \E o \in Outcomes, j \in NoJitter : AttemptDone(Client, o, j)
    \/ BackoffElapsed(Client)

SpecOps == InitOps /\ [][NextOps]_vars

\* Concurrent test-latency requests with every jitter of the backoff
NextRetry ==
    \/ \E r \in Reqs, q \in ValidQuestions, tok \in ValidTokens : TestLatency(r, q, tok)
    \/ \E r \in Reqs, o \in Outcomes, j \in Jitters : AttemptDone(r, o, j)
    \/ \E r \in Reqs : BackoffElapsed(r)

SpecRetry == Init /\ [][NextRetry]_vars

\* Each attempt ends, by response, error or timeout, and each backoff timer fires
RetryFairness ==
    \A r \in Reqs :
        /\ WF_vars(\E o \in Outcomes, j \in Jitters : AttemptDone(r, o, j))
        /\ WF_vars(BackoffElapsed(r))

SpecRetryFair == SpecRetry /\ RetryFairness

\* One client using every route of the gateway with well-formed requests, at
\* one reading of the clock
NextFrame ==
    \/ \E q \in ValidQuestions, tok \in ValidTokens : TestLatency(Client, q, tok)
    \/ \E o \in Outcomes, j \in NoJitter : AttemptDone(Client, o, j)
    \/ BackoffElapsed(Client)
    \/ \E tok \in ValidTokens : ConcurrentSessions(Client, tok)
    \/ \E tok \in ValidTokens : StopSession(Client, tok, Str("u-1"))
    \/ \E o \in Outcomes : SessionCallDone(Client, o)
    \/ \E tok \in ValidTokens, cid \in ConversationIds : CreateConversation(Client, tok, cid)
    \/ \E o \in Outcomes : ConversationLookupDone(Client, o)
    \/ \E cid \in ConversationIds : DuixSign(Client, cid)
    \/ Healthz(Client, TRUE)
    \/ \E o \in Outcomes : HealthzProbeDone(Client, o)
    \/ Status(Client)
    \/ \E o \in Outcomes : StatusProbeDone(Client, o)
    \/ Health(Client)
    \/ Ping(Client)
    \/ MeasureLatency(DateNow(now), 0)

SpecFrame == Init /\ [][NextFrame]_vars

\* the clock reading from which every upstream attempt succeeds
HealTicks == 1
HealMs == StartMs + HealTicks * TickMs

\* what an attempt that ends at time t can end with
UpstreamOutcomes(t) == IF t >= HealMs THEN {o \in Outcomes : Resolves(o)} ELSE Outcomes

\* One client sending test-latency requests to an upstream that fails at will
\* until HealMs and answers every attempt from then on
NextRecover ==
    \/ \E q \in ValidQuestions, tok \in ValidTokens : TestLatency(Client, q, tok)
    \/ \E o \in UpstreamOutcomes(now), j \in NoJitter : AttemptDone(Client, o, j)
    \/ BackoffElapsed(Client)
    \/ Tick

SpecRecover == Init /\ [][NextRecover]_vars

\* Time advances, requests keep arriving, and each attempt and each backoff ends
RecoverFairness ==
    /\ WF_vars(Tick)
    /\ WF_vars(\E q \in ValidQuestions, tok \in ValidTokens : TestLatency(Client, q, tok))
    /\ WF_vars(\E o \in UpstreamOutcomes(now), j \in NoJitter : AttemptDone(Client, o, j))
    /\ WF_vars(BackoffElapsed(Client))

SpecRecoverFair == SpecRecover /\ RecoverFairness

\* The latency echo route as the clock runs
NextLatency ==
    \/ \E d \in ProcessingTimes : \E c \in ClientSendTimes(now) : MeasureLatency(c, d)
    \/ \E ms \in ElapseSteps : Elapse(ms)

SpecLatency == Init /\ [][NextLatency]_vars

----------------------------------------------------------------------------
(* Properties of the breaker and the executor *)

Tripped == duixApiCircuitBreaker.failures >= 5
InWindow == now - duixApiCircuitBreaker.lastFailureTime <= 60000
Refusing == ~shouldAttemptDuixCall(duixApiCircuitBreaker, now).ok

\* request r arrives in this step and its handler answers without suspending
AnsweredAtOnce(r) == req[r].pc = "idle" /\ last' # last /\ last'.id = r
\* request r arrives in this step and is left waiting for an upstream call
Admitted(r) == req[r].pc = "idle" /\ req'[r].pc = "await"

\* C1 as stated: once five consecutive failures are recorded, the gate stays shut
\* for as long as now - lastFailureTime <= 60000 ms, whatever else happens.
C1_ShutForWholeWindow ==
    [][(Tripped /\ InWindow /\ InWindow') => Refusing']_vars

\* C1 amended: while failures >= 5 and now - lastFailureTime <= 60000 ms, the
\* breaker is OPEN, shouldAttemptDuixCall returns false, and no arriving request
\* starts an upstream call.
C1_ShutWhileTripped ==
    [][(Tripped /\ InWindow) =>
          /\ duixApiCircuitBreaker.state = "OPEN"
          /\ Refusing
          /\ \A r \in Reqs : ~Admitted(r)
          /\ \A r \in Reqs : AnsweredAtOnce(r) =>
                 last'.rq.gate = "refused" /\ last'.rq.calls = 0]_vars

C1_Witness ==
    /\ Tripped /\ InWindow
    /\ last.rq.gate = "refused"
    /\ last.rq.calls = 0
    /\ now - duixApiCircuitBreaker.lastFailureTime = 60000

\* C2: while the request that moved the breaker from OPEN to HALF_OPEN is still
\* waiting for its outcome, no other request is admitted.
C2_OneProbe ==
    [][\A p, r \in Reqs :
          (p # r /\ req[p].gate = "probe" /\ req[p].pc # "idle") => ~Admitted(r)]_vars

\* C3: a refused call answers a Fallback Response (fallback_mode true), issues no
\* upstream request and leaves failures, lastFailureTime and state as they were.
C3_RefusalIsInert ==
    [][\A r \in Reqs :
          (AnsweredAtOnce(r) /\ last'.rq.gate = "refused") =>
              /\ last'.rq.resp.data.fallback_mode
              /\ last'.rq.resp.data.session_id = "fallback_session"
              /\ last'.rq.calls = 0
              /\ last'.rq.timeouts = <<>>
              /\ req'[r].pc = "idle"
              /\ duixApiCircuitBreaker' = duixApiCircuitBreaker]_vars

C3_Witness ==
    /\ last.rq.gate = "refused"
    /\ last.rq.resp.data.fallback_mode
    /\ last.rq.calls = 0
    /\ duixApiCircuitBreaker.state = "OPEN"

Failed(o) == o.kind = "error" \/ (o.kind = "response" /\ o.status >= 500)
Answered(o) == o.kind = "response" /\ o.status < 500

ExpectedTimeouts == IF IS_PRODUCTION THEN <<17000, 19000>> ELSE <<22000, 24000, 26000>>
ExpectedAttempts == IF IS_PRODUCTION THEN 2 ELSE 3

\* C4: an admitted call whose every attempt fails makes exactly 2 (production) or
\* 3 upstream attempts, attempt k with timeout baseTimeout + k*2000 ms, strictly
\* increasing, and answers a Fallback Response with error_info.attempts equal to
\* that number of attempts.
C4_ExhaustedRetries ==
    /\ \A r \in Reqs :
          req[r].route = "test-latency" /\ req[r].pc # "idle" =>
              /\ req[r].calls = req[r].attempt
              /\ req[r].attempt \in 1..ExpectedAttempts
              /\ req[r].timeouts = SubSeq(ExpectedTimeouts, 1, req[r].attempt)
    /\ (last.rq.route = "test-latency" /\ Failed(last.rq.outcome)) =>
          /\ last.rq.calls = ExpectedAttempts
          /\ last.rq.timeouts = ExpectedTimeouts
          /\ \A k \in 1..(Len(last.rq.timeouts) - 1) :
                 last.rq.timeouts[k] < last.rq.timeouts[k + 1]
          /\ last.rq.resp.status = 200
          /\ last.rq.resp.data.fallback_mode
          /\ last.rq.resp.data.error_info.present
          /\ last.rq.resp.data.error_info.attempts = ExpectedAttempts

C4_Witness ==
    /\ last.rq.route = "test-latency"
    /\ Failed(last.rq.outcome)
    /\ last.rq.calls = ExpectedAttempts
    /\ last.rq.resp.data.error_info.attempts = ExpectedAttempts

\* C5: an attempt that returns a status below 500 ends the call: no further
\* attempt, a success recorded on the breaker (failures 0, state CLOSED), and a
\* non-fallback result carrying that status.
C5_AnswerEndsCall ==
    [][\A r \in Reqs :
          (req[r].pc = "await" /\ last' # last /\ last'.id = r
           /\ last'.rq.route = "test-latency" /\ Answered(last'.rq.outcome)) =>
              /\ last'.rq.calls = req[r].calls
              /\ req'[r].pc = "idle"
              /\ duixApiCircuitBreaker'.failures = 0
              /\ duixApiCircuitBreaker'.state = "CLOSED"
              /\ ~last'.rq.resp.data.fallback_mode
              /\ last'.rq.resp.data.real_api_response
              /\ last'.rq.resp.data.api_status = last'.rq.outcome.status
              /\ last'.rq.resp.status = 200]_vars

C5_Witness ==
    /\ last.rq.route = "test-latency"
    /\ last.rq.outcome.status = 404
    /\ last.rq.calls = 1
    /\ last.rq.resp.data.api_status = 404
    /\ ~last.rq.resp.data.fallback_mode
    /\ duixApiCircuitBreaker.failures = 0

----------------------------------------------------------------------------
(* Properties of the routes *)

WellShaped(resp) ==
    /\ resp.status = 200
    /\ resp.success = "true"
    /\ resp.data.session_id \in {"duix_session", "fallback_session"}
    /\ resp.data.api_status # 0

\* C6 as stated: every test-latency request with a string question and a string
\* token is answered 200 with success:true and the session_id/data shape.
C6_AnyStrings ==
    (last.rq.route = "test-latency" /\ IsString(last.rq.question) /\ IsString(last.rq.token))
        => WellShaped(last.rq.resp)

\* C6 amended: every test-latency request with a non-empty string question and a
\* non-empty string token is answered 200 with success:true and the same
\* session_id/data shape, whether upstream answers, fails on every attempt or is
\* not called because the breaker is OPEN.
C6_NonEmptyStrings ==
    (/\ last.rq.route = "test-latency"
     /\ IsString(last.rq.question) /\ last.rq.question.s # ""
     /\ IsString(last.rq.token) /\ last.rq.token.s # "")
        => WellShaped(last.rq.resp)

C6_Witness ==
    /\ last.rq.route = "test-latency"
    /\ last.rq.question = Str("hi") /\ last.rq.token = Str("abc")
    /\ last.rq.outcome.kind = "error"
    /\ WellShaped(last.rq.resp)
    /\ last.rq.resp.data.fallback_mode
    /\ duixApiCircuitBreaker.state = "OPEN"

MissingField(rq) ==
    \/ rq.route = "test-latency" /\ (~Truthy(rq.question) \/ ~Truthy(rq.token))
    \/ rq.route \in {"create-conversation", "concurrent-sessions", "stop-session"}
           /\ ~Truthy(rq.token)

\* C10: a request that lacks a required field is answered 400 with success:false,
\* no upstream call is made for it and the breaker is left unchanged.
C10_MissingFieldRejected ==
    [][/\ \A r \in Reqs : req'[r].pc # "idle" => ~MissingField(req'[r])
       /\ (last' # last /\ MissingField(last'.rq)) =>
              /\ last'.rq.resp.status = 400
              /\ last'.rq.resp.success = "false"
              /\ last'.rq.calls = 0
              /\ duixApiCircuitBreaker' = duixApiCircuitBreaker]_vars

C10_Witness ==
    /\ last.rq.route = "stop-session"
    /\ last.rq.token = Undefined
    /\ last.rq.resp.status = 400
    /\ last.rq.calls = 0
    /\ duixApiCircuitBreaker.state = "OPEN"

----------------------------------------------------------------------------
(* Properties of the token signer *)

SameInputs(a, b) ==
    /\ a.token.payload.appId = b.token.payload.appId
    /\ a.token.key = b.token.key
    /\ a.sigExp = b.sigExp

Stamp(e) == <<e.token.payload.iat, e.token.payload.exp>>

\* C7 as stated: exp = iat + lifetime, and two calls with identical inputs at two
\* different instants give different (iat, exp) pairs.
C7_AnyTwoInstants ==
    /\ \A i \in DOMAIN minted :
          minted[i].token.payload.exp = minted[i].token.payload.iat + minted[i].sigExp
    /\ \A i, j \in DOMAIN minted :
          (SameInputs(minted[i], minted[j]) /\ minted[i].at # minted[j].at)
              => Stamp(minted[i]) # Stamp(minted[j])

\* C7 amended: iat is the clock in whole seconds, exp = iat + lifetime, and two
\* calls with identical inputs give different (iat, exp) pairs exactly when they
\* are made in different seconds of the clock.
C7_DifferentSeconds ==
    /\ \A i \in DOMAIN minted :
          /\ minted[i].token.payload.iat * 1000 <= minted[i].at
          /\ minted[i].at < (minted[i].token.payload.iat + 1) * 1000
          /\ minted[i].token.payload.exp = minted[i].token.payload.iat + minted[i].sigExp
    /\ \A i, j \in DOMAIN minted :
          SameInputs(minted[i], minted[j]) =>
              ((Stamp(minted[i]) # Stamp(minted[j]))
                  <=> (minted[i].at \div 1000 # minted[j].at \div 1000))

C7_Witness ==
    /\ Len(minted) = 2
    /\ SameInputs(minted[1], minted[2])
    /\ minted[1].at \div 1000 # minted[2].at \div 1000
    /\ Stamp(minted[1]) # Stamp(minted[2])
    /\ minted[2].token.payload.exp = minted[2].token.payload.iat + 1800

\* C8: every token the gateway signs has exp > iat, whatever TOKEN_EXPIRY is set to.
C8_ExpiryAfterIssue ==
    \A i \in DOMAIN minted : minted[i].token.payload.exp > minted[i].token.payload.iat

----------------------------------------------------------------------------
(* Properties of the latency echo route *)

SumIsTotal(m) == DblAdd(m.networkLatency, m.serverProcessingTime) = m.totalRoundTrip

\* C9 as stated: for every numeric clientSendTime the answer has
\* networkLatency + serverProcessingTime = totalRoundTrip exactly.
C9_AnyNumber == latency.measured => SumIsTotal(latency)

\* |x| <= 2^52
Within52(x) == x.hi < Hi53 \div 2 \/ (x.hi = Hi53 \div 2 /\ x.lo = 0)

\* C9 amended: for every integer clientSendTime with |clientSendTime| <= 2^52 the
\* answer has networkLatency = serverReceiveTime - clientSendTime,
\* serverProcessingTime = serverProcessTime - serverReceiveTime and
\* networkLatency + serverProcessingTime = totalRoundTrip exactly, and the
\* handler makes no upstream call.
C9_ExactIntegers ==
    [][(latency' # latency /\ Within52(latency'.clientSendTime)) =>
          /\ latency'.networkLatency
                 = ExactAdd(latency'.serverReceiveTime, Negate(latency'.clientSendTime))
          /\ latency'.serverProcessingTime
                 = ExactAdd(latency'.serverProcessTime, Negate(latency'.serverReceiveTime))
          /\ SumIsTotal(latency')
          /\ \A r \in Reqs : req'[r].calls = 0 /\ req'[r].pc = "idle"
          /\ UNCHANGED gatewayVars]_vars

C9_Witness ==
    /\ latency.measured
    /\ latency.networkLatency = Small(50)
    /\ latency.serverProcessingTime = Small(1)
    /\ latency.totalRoundTrip = Small(51)

----------------------------------------------------------------------------
(* Properties of the connection profile *)

\* the profiles in use: those the handlers built and the process-wide default
Profiles ==
    {agents[i] : i \in 1..Len(agents)} \cup (IF Listening THEN {httpsAgent} ELSE {})

Strict(a) ==
    /\ a.rejectUnauthorized
    /\ a.checkServerIdentity = "tls.checkServerIdentity"
    /\ a.minVersion = "TLSv1.2"
    /\ a.maxVersion = "TLSv1.3"

VersionsBounded(a) ==
    \/ a.minVersion # "undefined" /\ a.maxVersion # "undefined"
    \/ a.secureProtocol = "TLSv1_2_method"

C14_ProductionValidatesAll ==
    IS_PRODUCTION =>
        \A a \in Profiles :
            a.rejectUnauthorized /\ a.checkServerIdentity = "tls.checkServerIdentity"

\* the profile the other runtime flag builds for the same purpose
Counterpart(a, prod) == createHTTPSAgent(prod, envDisableSslValidation, a.strategy)

\* C15 as stated: the production profile has a smaller pool and a shorter
\* timeout than the development profile of the same purpose.
C15_SmallerPoolShorterTimeout ==
    \A i \in 1..Len(agents) :
        LET a == agents[i]
            p == IF IS_PRODUCTION THEN a ELSE Counterpart(a, TRUE)
            d == IF IS_PRODUCTION THEN Counterpart(a, FALSE) ELSE a
        IN  /\ p.maxSockets < d.maxSockets
            /\ p.maxFreeSockets < d.maxFreeSockets
            /\ p.timeout < d.timeout

\* C15 amended: the production profile has a larger pool (maxSockets 50 against
\* 10, maxFreeSockets 20 against 5) and a shorter timeout (20000 ms against
\* 30000 ms) than the development profile of the same purpose.
C15_LargerPoolShorterTimeout ==
    \A i \in 1..Len(agents) :
        LET a == agents[i]
            p == IF IS_PRODUCTION THEN a ELSE Counterpart(a, TRUE)
            d == IF IS_PRODUCTION THEN Counterpart(a, FALSE) ELSE a
        IN  /\ p.maxSockets = 50 /\ d.maxSockets = 10
            /\ p.maxFreeSockets = 20 /\ d.maxFreeSockets = 5
            /\ p.timeout = 20000 /\ d.timeout = 30000
            /\ p.timeout < d.timeout

C15_Witness ==
    /\ IS_PRODUCTION
    /\ Len(agents) > 0
    /\ agents[1].strategy = "duix_api"
    /\ agents[1].maxSockets = 50
    /\ agents[1].timeout = 20000

----------------------------------------------------------------------------
(* Properties of startup and of the routes that sign tokens *)

\* request r is answered in this step
AnswersNow(r) == req[r].pc # "idle" /\ req'[r].pc = "idle"

\* a sign request arrives and is answered in this step
SignAnswered == AnsweredAtOnce(Client) /\ last'.rq.route = "sign"

\* C11: under the production flag GET /api/duix/sign answers 403 whatever the
\* query is, returns no token and signs none; under a non-production flag it
\* answers 200 with a token signed in that step: iat is the current second, exp is
\* iat + TOKEN_EXPIRY, and the key is DUIX_APP_KEY.
C11_SignOnlyOutsideProduction ==
    [][SignAnswered =>
          IF IS_PRODUCTION
          THEN /\ last'.rq.resp.status = 403
               /\ last'.rq.resp.sign = NoToken
               /\ minted' = minted
          ELSE /\ last'.rq.resp.status = 200
               /\ last'.rq.resp.sign.payload.appId = DUIX_APP_ID
               /\ last'.rq.resp.sign.payload.iat = now \div 1000
               /\ last'.rq.resp.sign.payload.exp = (now \div 1000) + TOKEN_EXPIRY
               /\ last'.rq.resp.sign.key = DUIX_APP_KEY
               /\ minted' # <<>>
               /\ minted'[Len(minted')].token = last'.rq.resp.sign]_vars

C11_Witness ==
    /\ IS_PRODUCTION
    /\ last.rq.route = "sign"
    /\ last.rq.conversationId = Str("c-1")
    /\ last.rq.resp.status = 403
    /\ last.rq.resp.sign = NoToken

\* C16: every response with a status of 400 or more carries an error identifier
\* and a timestamp, and no response of a production process carries the message
\* or code of the error behind it.
C16_ErrorsIdentifiedAndSanitized ==
    /\ last.rq.resp.status >= 400 => last.rq.resp.errorId /\ last.rq.resp.timestamp
    /\ IS_PRODUCTION => ~last.rq.resp.details

\* the response without what it reports about the probe: checks.duix_api and,
\* when the probe threw, checks.duix_error
WithoutProbeReport(resp) == [resp EXCEPT !.duix_api = "none", !.details = FALSE]

CredentialsAbsent == ~Truthy(envDuixAppId) \/ ~Truthy(envDuixAppKey)

\* C18: the module body ends in an exit when the flag is production and
\* DUIX_APP_ID or DUIX_APP_KEY is absent, and in app.listen otherwise, also with
\* both credentials absent under a non-production flag; a process that has not
\* reached app.listen has served no request, and one that has exited takes no step.
C18_ExitWithoutCredentials ==
    [][/\ phase = "starting" =>
              phase' = (IF IS_PRODUCTION /\ CredentialsAbsent THEN "exited" ELSE "listening")
       /\ phase' # "listening" =>
              /\ \A r \in Reqs : req'[r] = IdleReq
              /\ last'.id = "none"
              /\ minted' = <<>>
       /\ phase # "exited"]_vars

C18_Witness ==
    /\ IS_PRODUCTION
    /\ envDuixAppId = Str("app-1")
    /\ envDuixAppKey = Undefined
    /\ phase = "exited"

\* C19: while the breaker is OPEN and its recovery timeout has not elapsed, a
\* request that arrives on a route of the gateway issues no upstream call.
C19_NoCallWhileOpen ==
    [][(Refusing /\ Free(Client)) => req'[Client].calls = 0]_vars

\* the pair the mode is said to be determined by
ModePair(cb, t) == <<cb.failures >= 5, t - cb.lastFailureTime > 60000>>

\* C20 as stated: two states that agree on (failures >= 5, now - lastFailureTime
\* > 60000 ms) have the same mode; here for a state and its successor.
C20_ModeFromPair ==
    [][ModePair(duixApiCircuitBreaker', now') = ModePair(duixApiCircuitBreaker, now)
           => duixApiCircuitBreaker'.state = duixApiCircuitBreaker.state]_vars

\* C20 amended: the mode is CLOSED exactly when failures < 5; with failures >= 5
\* it is OPEN while now - lastFailureTime <= 60000 ms, and after that OPEN until
\* the next shouldAttemptDuixCall and HALF_OPEN from then on.
C20_ModeFromFailures ==
    /\ duixApiCircuitBreaker.state \in {"CLOSED", "OPEN", "HALF_OPEN"}
    /\ duixApiCircuitBreaker.state = "CLOSED" <=> duixApiCircuitBreaker.failures < 5
    /\ (Tripped /\ InWindow) => duixApiCircuitBreaker.state = "OPEN"
    /\ duixApiCircuitBreaker.state = "HALF_OPEN" => (Tripped /\ ~InWindow)

C20_Witness ==
    /\ duixApiCircuitBreaker.state = "HALF_OPEN"
    /\ duixApiCircuitBreaker.failures = 5
    /\ now - duixApiCircuitBreaker.lastFailureTime > 60000
    /\ \E r \in Reqs : req[r].gate = "probe"

----------------------------------------------------------------------------
(* Properties of the retry loop *)

InCall(r) == req[r].route = "test-latency" /\ req[r].pc # "idle"

\* C29: a call with a string token never makes more than maxRetries attempts, is
\* answered with a result or a Fallback Response and never with the error of a
\* rejected call, and, as every attempt ends and every backoff timer fires, each
\* call that has started is answered.
C29_CallTerminates ==
    /\ [](/\ \A r \in Reqs : InCall(r) => req[r].calls <= maxRetries(IS_PRODUCTION)
          /\ (last.rq.route = "test-latency" /\ IsString(last.rq.token)) =>
                 /\ last.rq.calls <= maxRetries(IS_PRODUCTION)
                 /\ last.rq.resp.status = 200
                 /\ last.rq.resp.data.session_id \in {"duix_session", "fallback_session"})
    /\ \A r \in Reqs : InCall(r) ~> Free(r)

C29_Witness ==
    /\ last.rq.route = "test-latency"
    /\ last.rq.calls = maxRetries(IS_PRODUCTION)
    /\ last.rq.outcome.kind = "error"
    /\ last.rq.resp.data.session_id = "fallback_session"
    /\ Len(last.rq.delays) = maxRetries(IS_PRODUCTION) - 1

\* C24: within one request the attempt number advances by one, and only when
\* its backoff timer fires; the backoff starts only when the awaited attempt has
\* ended in failure; and a request has one call outstanding while it awaits and
\* none while it sleeps, so two attempts of it never overlap.
C24_AttemptsInOrder ==
    [][\A r \in Reqs :
          /\ (InCall(r) /\ req'[r].attempt > req[r].attempt) =>
                 /\ req[r].pc = "backoff"
                 /\ Len(req[r].delays) = req[r].attempt
                 /\ req'[r].pc = "await"
                 /\ req'[r].attempt = req[r].attempt + 1
          /\ (req'[r].pc = "backoff" /\ req[r].pc # "backoff") =>
                 /\ req[r].pc = "await"
                 /\ req'[r].attempt = req[r].attempt
                 /\ req'[r].calls = req[r].calls
          /\ (req'[r].route = "test-latency" /\ req'[r].pc # "idle") =>
                 req'[r].calls = req'[r].attempt]_vars

\* attempts of two requests in flight at once
C24_Witness ==
    /\ req["r1"].route = "test-latency" /\ req["r1"].pc = "await" /\ req["r1"].attempt = 2
    /\ req["r2"].route = "test-latency" /\ req["r2"].pc = "backoff" /\ req["r2"].attempt = 1

DelayInRange(k, d) ==
    LET base == 2^k * 1000
        floor == IF base < 10000 THEN base ELSE 10000
    IN  /\ d <= 10000
        /\ d >= floor
        /\ d < 10000 => (d - base) \in 0..999

\* the delays a request has slept or is sleeping, checked against the formula
DelaysOk(rq) ==
    /\ \A k \in 1..Len(rq.delays) : DelayInRange(k, rq.delays[k])
    /\ \A k \in 1..(Len(rq.delays) - 1) :
           rq.delays[k + 1] < 10000 => rq.delays[k] < rq.delays[k + 1]
    /\ Len(rq.delays) = (IF rq.pc = "backoff" THEN rq.attempt ELSE rq.attempt - 1)
    /\ Len(rq.delays) <= maxRetries(IS_PRODUCTION) - 1

\* C25: the delay after failed attempt k is min(2^k * 1000 + j, 10000) ms with
\* 0 <= j < 1000: at most 10000, at least min(2^k * 1000, 10000), growing from one
\* retry to the next while under the cap; there is one delay per failed attempt
\* but the last, after which there is none.
C25_BackoffDelays ==
    /\ \A r \in Reqs : InCall(r) => DelaysOk(req[r])
    /\ (last.rq.route = "test-latency" /\ last.rq.calls > 0) => DelaysOk(last.rq)

C25_Witness ==
    /\ ~IS_PRODUCTION
    /\ last.rq.route = "test-latency"
    /\ last.rq.calls = 3
    /\ Failed(last.rq.outcome)
    /\ last.rq.delays = <<2999, 4000>>

----------------------------------------------------------------------------
(* Properties of the breaker's updates *)

\* the call of request r ends in this step; last' is then the record of r
CallEnds(r) == req[r].route = "test-latency" /\ req[r].pc = "await" /\ req'[r].pc = "idle"

\* C21: a recorded success leaves failures = 0 and state = CLOSED whatever the
\* state was; a failure recorded in HALF_OPEN leaves state = OPEN, failures one
\* higher and at least 5, and lastFailureTime at the time of that failure; and
\* the breaker goes from OPEN to HALF_OPEN, admitting a probe, only when more
\* than 60000 ms have passed since lastFailureTime.
C21_SuccessClosesProbeFailureReopens ==
    [][/\ \A r \in Reqs : CallEnds(r) =>
              IF Answered(last'.rq.outcome)
              THEN /\ duixApiCircuitBreaker'.failures = 0
                   /\ duixApiCircuitBreaker'.state = "CLOSED"
              ELSE duixApiCircuitBreaker.state = "HALF_OPEN" =>
                       /\ duixApiCircuitBreaker'.state = "OPEN"
                       /\ duixApiCircuitBreaker'.failures = duixApiCircuitBreaker.failures + 1
                       /\ duixApiCircuitBreaker'.failures >= 5
                       /\ duixApiCircuitBreaker'.lastFailureTime = now
       /\ (duixApiCircuitBreaker.state = "OPEN" /\ duixApiCircuitBreaker'.state = "HALF_OPEN")
              => now - duixApiCircuitBreaker.lastFailureTime > 60000]_vars

\* the probe has failed: the breaker is OPEN again, from the time of that failure
C21_Witness ==
    /\ last.rq.route = "test-latency"
    /\ last.rq.gate = "probe"
    /\ Failed(last.rq.outcome)
    /\ duixApiCircuitBreaker.state = "OPEN"
    /\ duixApiCircuitBreaker.failures = 6
    /\ duixApiCircuitBreaker.lastFailureTime = now
    /\ now > StartMs

\* C22: an admitted call changes the breaker once, in the step that ends it: to
\* failures 0 and CLOSED when the attempt returned a status below 500, or by one
\* more failure at the current time when attempt maxRetries failed; a failed
\* attempt before the last one, and the start of the next attempt, leave
\* failures, lastFailureTime and state as they were.
C22_OneUpdatePerCall ==
    [][\A r \in Reqs :
          /\ CallEnds(r) =>
                 IF Answered(last'.rq.outcome)
                 THEN duixApiCircuitBreaker' =
                          [duixApiCircuitBreaker EXCEPT !.failures = 0, !.state = "CLOSED"]
                 ELSE /\ Failed(last'.rq.outcome)
                      /\ last'.rq.attempt = maxRetries(IS_PRODUCTION)
                      /\ duixApiCircuitBreaker'.failures = duixApiCircuitBreaker.failures + 1
                      /\ duixApiCircuitBreaker'.lastFailureTime = now
          /\ (req[r].route = "test-latency" /\ req[r].pc = "await" /\ req'[r].pc = "backoff") =>
                 /\ req[r].attempt < maxRetries(IS_PRODUCTION)
                 /\ duixApiCircuitBreaker' = duixApiCircuitBreaker
          /\ (req[r].pc = "backoff" /\ req'[r].pc = "await") =>
                 duixApiCircuitBreaker' = duixApiCircuitBreaker]_vars

\* two attempts have failed and the breaker has recorded nothing
C22_Witness ==
    /\ \E r \in Reqs : req[r].pc = "backoff" /\ req[r].attempt = 2 /\ req[r].calls = 2
    /\ duixApiCircuitBreaker = InitBreaker

\* C23: with requests interleaving, every call that ends in failure raises
\* failures by exactly one, the step that brings failures to 5 (or beyond) leaves
\* the state OPEN and a step below that leaves the state alone; failures changes
\* in no other way than by such a step or by the reset of a success.
C23_NoLostUpdate ==
    [][/\ \A r \in Reqs : (CallEnds(r) /\ Failed(last'.rq.outcome)) =>
              /\ duixApiCircuitBreaker'.failures = duixApiCircuitBreaker.failures + 1
              /\ duixApiCircuitBreaker'.state =
                     (IF duixApiCircuitBreaker'.failures >= 5 THEN "OPEN"
                      ELSE duixApiCircuitBreaker.state)
       /\ duixApiCircuitBreaker'.failures # duixApiCircuitBreaker.failures =>
              \E r \in Reqs : CallEnds(r) /\
                  (IF Failed(last'.rq.outcome)
                   THEN duixApiCircuitBreaker'.failures = duixApiCircuitBreaker.failures + 1
                   ELSE duixApiCircuitBreaker'.failures = 0)]_vars

\* the fifth failure is recorded by one request while another is in flight
C23_Witness ==
    /\ duixApiCircuitBreaker.failures = 5
    /\ duixApiCircuitBreaker.state = "OPEN"
    /\ last.id = "r2" /\ Failed(last.rq.outcome)
    /\ req["r1"].pc = "await" /\ req["r1"].gate = "admitted"

\* C28: in every reachable state the mode is CLOSED exactly when failures < 5 and
\* OPEN or HALF_OPEN exactly when failures >= 5.
C28_ModeMatchesCount ==
    /\ duixApiCircuitBreaker.state = "CLOSED" <=> duixApiCircuitBreaker.failures < 5
    /\ duixApiCircuitBreaker.state \in {"OPEN", "HALF_OPEN"}
           <=> duixApiCircuitBreaker.failures >= 5

\* two requests in flight have both failed after the fourth failure
C28_Witness ==
    /\ duixApiCircuitBreaker.state = "OPEN"
    /\ duixApiCircuitBreaker.failures = 6
    /\ now = StartMs

----------------------------------------------------------------------------
(* Properties of the routes that call upstream outside the executor *)

\* an upstream answer with a status outside 200..299 and below 500
Rejection(o) == o.kind = "response" /\ o.status < 500 /\ ~(o.status >= 200 /\ o.status < 300)

\* C27: a request of the executor path or of a session route whose upstream call
\* returned a non-2xx status below 500 is answered with that upstream status: the
\* test-latency result carries it as api_status in a real (non-fallback) result,
\* and a session route answers with that status, not with a 5xx.
C27_RejectionPassedThrough ==
    (last.rq.pc = "done" /\ Rejection(last.rq.outcome)) =>
        /\ last.rq.route = "test-latency" =>
               /\ last.rq.resp.status < 500
               /\ last.rq.resp.data.api_status = last.rq.outcome.status
               /\ ~last.rq.resp.data.fallback_mode
        /\ last.rq.route \in {"concurrent-sessions", "stop-session"} =>
               last.rq.resp.status = last.rq.outcome.status

OtherRoutes ==
    {"health", "ping", "healthz", "status", "sign", "create-conversation",
     "concurrent-sessions", "stop-session"}

\* this step is one of request r inside callDUIXServiceWithToken: its gate, which
\* runs as the request arrives, or the end of one of its attempts
ExecutorStep(r) ==
    \/ req[r].route = "test-latency" /\ req[r].pc = "await" /\ req'[r] # req[r]
    \/ Free(r) /\ req'[r].route = "test-latency"
    \/ Free(r) /\ last' # last /\ last'.id = r /\ last'.rq.route = "test-latency"

\* this step is one of a handler of another route, arriving or ending its upstream call
OtherStep(r) ==
    \/ req[r].route \in OtherRoutes /\ req[r].pc = "await" /\ req'[r] # req[r]
    \/ Free(r) /\ req'[r].route \in OtherRoutes
    \/ Free(r) /\ last' # last /\ last'.id = r /\ last'.rq.route \in OtherRoutes

\* C26: failures, lastFailureTime and state change only in a step of
\* callDUIXServiceWithToken; every step of /health, /ping, /healthz, /api/status,
\* /api/measure-latency, /api/duix/sign, create-conversation, concurrent-sessions
\* and stop-session leaves the breaker as it was, whatever the upstream outcome.
C26_BreakerChangedByExecutorOnly ==
    [][/\ duixApiCircuitBreaker' # duixApiCircuitBreaker => \E r \in Reqs : ExecutorStep(r)
       /\ (latency' # latency \/ \E r \in Reqs : OtherStep(r))
              => duixApiCircuitBreaker' = duixApiCircuitBreaker]_vars

\* a session call has failed after the executor recorded one failure: the count
\* is still one
C26_Witness ==
    /\ last.rq.route = "stop-session"
    /\ Failed(last.rq.outcome)
    /\ duixApiCircuitBreaker.failures = 1
    /\ duixApiCircuitBreaker.state = "CLOSED"

----------------------------------------------------------------------------
(* Recovery of the breaker *)

\* C30: when every upstream attempt succeeds from HealMs on, test-latency
\* requests keep arriving and time advances, a breaker that is OPEN or HALF_OPEN
\* is eventually CLOSED with failures = 0 and stays so for ever.
C30_BreakerRecovers ==
    (duixApiCircuitBreaker.state \in {"OPEN", "HALF_OPEN"})
        ~> [](duixApiCircuitBreaker.state = "CLOSED" /\ duixApiCircuitBreaker.failures = 0)

\* the probe sent after the recovery timeout has succeeded and closed the breaker
C30_Witness ==
    /\ now >= HealMs
    /\ last.rq.route = "test-latency"
    /\ last.rq.gate = "probe"
    /\ Answered(last.rq.outcome)
    /\ duixApiCircuitBreaker.state = "CLOSED"
    /\ duixApiCircuitBreaker.failures = 0
    /\ duixApiCircuitBreaker.lastFailureTime = StartMs

====
